---- MODULE Spec2Model ----
(***************************************************************************)
(* Model of the client module of earthengine-ts: initEarthEngine and       *)
(* initWithOAuth, the two promise-based wrappers around the callback-based *)
(* authentication and initialization entry points of @google/earthengine.  *)
(*                                                                         *)
(* JavaScript values are records [t, v]: t is the tag of the value and v a *)
(* sequence of chunks.  A string is the sequence of its chunks, the chunk  *)
(* " " being white space; an object is the sequence key1, value1, key2,    *)
(* value2, ... of its own string-valued properties.                        *)
(*                                                                         *)
(* The environment of Spec: the caller makes one call at a time and looks  *)
(* at its result before the next one; an entry point of the library either *)
(* throws, or returns and later invokes one of its two callbacks at most   *)
(* once, or never reports; tokenRetriever throws, or returns a promise     *)
(* that resolves with a token, rejects, or stays pending.                  *)
(***************************************************************************)
EXTENDS Integers, Sequences, FiniteSets, TLC

\* ------------------------------------------------------------------ bounds
MaxCalls == 2
MaxProjectLen == 2
MaxListLen == 2     \* longest array given to a helper that takes an array
MaxFires == 2       \* most invocations of the callbacks of one step
MaxResets == 1      \* most calls of resetClient in one sequence of calls

\* ------------------------------------------------------- JavaScript values
Undef == [t |-> "undefined", v |-> <<>>]
Null == [t |-> "null", v |-> <<>>]
Absent == [t |-> "absent", v |-> <<>>]
Str(s) == [t |-> "string", v |-> s]
Num(n) == [t |-> "number", v |-> <<n>>]
Bool(b) == [t |-> "boolean", v |-> <<b>>]
Arr(s) == [t |-> "array", v |-> s]
Obj(kv) == [t |-> "object", v |-> kv]
Fun(name) == [t |-> "function", v |-> <<name>>]

\* typeof x
TypeOf(x) ==
  CASE x.t = "null" -> "object"
    [] x.t = "array" -> "object"
    [] OTHER -> x.t

\* ToBoolean(x): the test of `if (x)`, `x && y`, `x || y`, `x ? a : b`
Truthy(x) ==
  CASE x.t = "undefined" -> FALSE
    [] x.t = "null" -> FALSE
    [] x.t = "string" -> x.v # <<>>
    [] x.t = "number" -> x.v # <<"0">>
    [] x.t = "boolean" -> x.v = <<"true">>
    [] OTHER -> TRUE

RECURSIVE TrimStart(_)
TrimStart(s) ==
  IF s # <<>> /\ Head(s) = " " THEN TrimStart(Tail(s)) ELSE s

RECURSIVE TrimEnd(_)
TrimEnd(s) ==
  IF s # <<>> /\ s[Len(s)] = " " THEN TrimEnd(SubSeq(s, 1, Len(s) - 1)) ELSE s

\* String.prototype.trim
Trim(x) == Str(TrimEnd(TrimStart(x.v)))

\* String(x) for the values of the model
StringOf(x) ==
  CASE x.t = "string" -> x
    [] x.t = "object" -> Str(<<"[object Object]">>)
    [] OTHER -> Str(x.v)

\* obj.name for a non-null value: the own property, or undefined
RECURSIVE GetProp(_, _)
GetProp(x, name) ==
  IF x.t # "object" \/ Len(x.v) < 2 THEN Undef
  ELSE IF x.v[1] = name THEN Str(<<x.v[2]>>)
  ELSE GetProp(Obj(SubSeq(x.v, 3, Len(x.v))), name)

\* The members of a JSON object text, between the braces:
\*   key : value ( , key : value )*
\* Returns the key/value sequence, or <<"!">> for a syntax error.
RECURSIVE ParseMembers(_)
ParseMembers(toks) ==
  IF Len(toks) < 3 \/ toks[2] # ":" \/ toks[1] \in {"{", "}", ":", ","}
     \/ toks[3] \in {"{", "}", ":", ","}
  THEN <<"!">>
  ELSE IF Len(toks) = 3 THEN <<toks[1], toks[3]>>
  ELSE IF toks[4] # "," THEN <<"!">>
  ELSE LET rest == ParseMembers(SubSeq(toks, 5, Len(toks)))
       IN IF rest = <<"!">> THEN <<"!">> ELSE <<toks[1], toks[3]>> \o rest

\* JSON.parse(text): [throws, val]
JSONparse(text) ==
  LET toks == text.v
  IN IF toks = <<"null">> THEN [throws |-> FALSE, val |-> Null]
     ELSE IF toks = <<"123">> THEN [throws |-> FALSE, val |-> Num("123")]
     ELSE IF toks = <<"{", "}">> THEN [throws |-> FALSE, val |-> Obj(<<>>)]
     ELSE IF Len(toks) >= 2 /\ toks[1] = "{" /\ toks[Len(toks)] = "}"
          THEN LET kv == ParseMembers(SubSeq(toks, 2, Len(toks) - 1))
               IN IF kv = <<"!">> THEN [throws |-> TRUE, val |-> Undef]
                  ELSE [throws |-> FALSE, val |-> Obj(kv)]
     ELSE [throws |-> TRUE, val |-> Undef]

\* ------------------------------------------------------- program constants
DEFAULT_SCOPES == Arr(<<"https://www.googleapis.com/auth/earthengine">>)
ParseErrorMessage == "Failed to parse service account JSON key"
ProjectErrorMessage(x) ==
  CASE TypeOf(x) = "number" -> "Project must be a string, got number"
    [] TypeOf(x) = "boolean" -> "Project must be a string, got boolean"
    [] TypeOf(x) = "object" -> "Project must be a string, got object"
    [] OTHER -> "Project must be a string, got function"
TheEE == "ee"

\* ------------------------------------------------------------------ inputs
Calls == 1 .. MaxCalls
Steps == {"auth", "init"}
CallbackErrors == {"E1", "E2"}
ThrownErrors == {"X1"}
RetrieverErrors == {"R1"}
Tokens == {"T1", "T2"}

RECURSIVE SeqsUpTo(_, _)
SeqsUpTo(S, n) ==
  IF n = 0 THEN {<<>>}
  ELSE LET prev == SeqsUpTo(S, n - 1)
       IN prev \cup {Append(s, x) : s \in prev, x \in S}

Emails == {Undef, Str(<<>>), Str(<<"sep@x">>)}
PrivateKeys == {Undef, Str(<<>>), Str(<<"SEPKEY">>)}
JsonKeyText == <<"{", "client_email", ":", "json@x", ",", "private_key", ":", "JSONKEY", "}">>
JsonKeyTextWithProject ==
  <<"{", "client_email", ":", "json@x", ",", "private_key", ":", "JSONKEY", ",",
    "project_id", ":", "keyproj", "}">>
KeyStrings ==
  {Str(<<>>), Str(<<"not-valid-json">>), Str(<<"{", "client_email", ":">>),
   Str(<<"null">>), Str(<<"123">>), Str(<<"{", "}">>),
   Str(JsonKeyText), Str(JsonKeyTextWithProject)}
KeyObjects ==
  {Obj(<<"email", "obj@x", "privateKey", "OBJKEY">>),
   Obj(<<"email", "obj@x", "privateKey", "OBJKEY", "projectId", "objproj">>),
   Obj(<<"client_email", "file@x", "private_key", "FILEKEY", "project_id", "fileproj">>)}
PrivateKeyJsons == {Undef} \cup KeyStrings \cup KeyObjects
TokenRetrievers == {Undef, Fun("tokenRetriever")}
Projects ==
  {Undef, Num("0"), Num("5")} \cup {Str(s) : s \in SeqsUpTo({" ", "p"}, MaxProjectLen)}
BaseUrls == {Undef, Str(<<" ", "u">>)}
ClientIds == {Str(<<"client-id">>)}
ScopeLists ==
  {Undef, Arr(<<>>), Arr(<<"https://www.googleapis.com/auth/earthengine.readonly">>)}

NoOptions ==
  [email |-> Undef, privateKey |-> Undef, privateKeyJson |-> Undef,
   tokenRetriever |-> Undef, project |-> Undef, baseUrl |-> Undef,
   clientId |-> Undef, scopes |-> Undef]

\* EarthEngineInitOptions
InitOptions ==
  {[NoOptions EXCEPT !.email = e, !.privateKey = k, !.privateKeyJson = j,
                     !.tokenRetriever = r, !.project = p, !.baseUrl = b] :
     e \in Emails, k \in PrivateKeys, j \in PrivateKeyJsons,
     r \in TokenRetrievers, p \in Projects, b \in BaseUrls}

\* OAuthOptions
OAuthOptionSet ==
  {[NoOptions EXCEPT !.clientId = i, !.scopes = s, !.project = p] :
     i \in ClientIds, s \in ScopeLists, p \in Projects}

\* --------------------------------------------------- functions of the code
\* SelectPath with the second branch tested before the first
SelectPath_JsonFirst(o) ==
  IF Truthy(o.privateKeyJson) THEN "json"
  ELSE IF Truthy(o.email) /\ Truthy(o.privateKey) THEN "pair"
  ELSE IF Truthy(o.tokenRetriever) THEN "token"
  ELSE "none"

\* The branch of the if / else-if chain that initEarthEngine takes
SelectPath(o) ==
  IF Truthy(o.email) /\ Truthy(o.privateKey) THEN "pair"
  ELSE IF Truthy(o.privateKeyJson) THEN "json"
  ELSE IF Truthy(o.tokenRetriever) THEN "token"
  ELSE "none"

\* The property name: value pair of an object literal, left out when undefined
Member(name, x) == IF x.t = "string" THEN <<name, x.v[1]>> ELSE <<>>

\* parseServiceAccountKey without the catch clause: the error of JSON.parse
\* or of the property read reaches the caller
parseServiceAccountKey_NoCatch(keyInput) ==
  IF TypeOf(keyInput) = "string"
  THEN LET parsed == JSONparse(keyInput)
       IN IF parsed.throws \/ parsed.val.t = "null"
          THEN [throws |-> TRUE,
                err |-> IF parsed.throws THEN "SyntaxError" ELSE "TypeError",
                val |-> Undef]
          ELSE [throws |-> FALSE, err |-> "",
                val |-> Obj(Member("email", GetProp(parsed.val, "client_email"))
                            \o Member("privateKey", GetProp(parsed.val, "private_key"))
                            \o Member("projectId", GetProp(parsed.val, "project_id")))]
  ELSE [throws |-> FALSE, err |-> "", val |-> keyInput]

\* parseServiceAccountKey that reads the fields email and privateKey of the
\* parsed text instead of client_email and private_key
parseServiceAccountKey_WrongFields(keyInput) ==
  IF TypeOf(keyInput) = "string"
  THEN LET parsed == JSONparse(keyInput)
       IN IF parsed.throws \/ parsed.val.t = "null"
          THEN [throws |-> TRUE, err |-> ParseErrorMessage, val |-> Undef]
          ELSE [throws |-> FALSE, err |-> "",
                val |-> Obj(Member("email", GetProp(parsed.val, "email"))
                            \o Member("privateKey", GetProp(parsed.val, "privateKey"))
                            \o Member("projectId", GetProp(parsed.val, "project_id")))]
  ELSE [throws |-> FALSE, err |-> "", val |-> keyInput]

\* parseServiceAccountKey(keyInput): [throws, err, val].  JSON.parse throws on
\* a text that is not JSON, and a property read of null throws; the catch
\* clause turns both into the error with the fixed message.
parseServiceAccountKey(keyInput) ==
  IF TypeOf(keyInput) = "string"
  THEN LET parsed == JSONparse(keyInput)
       IN IF parsed.throws \/ parsed.val.t = "null"
          THEN [throws |-> TRUE, err |-> ParseErrorMessage, val |-> Undef]
          ELSE [throws |-> FALSE, err |-> "",
                val |-> Obj(Member("email", GetProp(parsed.val, "client_email"))
                            \o Member("privateKey", GetProp(parsed.val, "private_key"))
                            \o Member("projectId", GetProp(parsed.val, "project_id")))]
  ELSE [throws |-> FALSE, err |-> "", val |-> keyInput]

\* PairCredentials with project_id set to the project as given, untrimmed
PairCredentials_NoTrim(o) ==
  <<o.email, o.privateKey,
    IF Truthy(o.project) /\ TypeOf(o.project) = "string" THEN o.project ELSE Absent>>

\* The credentials record of the email / privateKey branch, as the sequence
\* client_email, private_key, project_id (Absent: the record has no such field)
PairCredentials(o) ==
  <<o.email, o.privateKey,
    IF Truthy(o.project) /\ TypeOf(o.project) = "string" THEN Trim(o.project) ELSE Absent>>

\* The privateKeyJson branch preferring the project id of the key
JsonCredentials_KeyProjectFirst(o, parsedCredentials) ==
  <<GetProp(parsedCredentials, "email"), GetProp(parsedCredentials, "privateKey"),
    IF Truthy(GetProp(parsedCredentials, "projectId"))
    THEN GetProp(parsedCredentials, "projectId")
    ELSE IF Truthy(o.project) /\ TypeOf(o.project) = "string" THEN Trim(o.project)
         ELSE Absent>>

\* The credentials record of the privateKeyJson branch
JsonCredentials(o, parsedCredentials) ==
  <<GetProp(parsedCredentials, "email"), GetProp(parsedCredentials, "privateKey"),
    IF Truthy(o.project) /\ TypeOf(o.project) = "string" THEN Trim(o.project)
    ELSE IF Truthy(GetProp(parsedCredentials, "projectId"))
         THEN GetProp(parsedCredentials, "projectId")
         ELSE Absent>>

\* SetAuthTokenArgs with the token type and the token swapped
SetAuthTokenArgs_Swapped(token) ==
  <<Str(<<>>), Str(<<token>>), Str(<<"Bearer">>), Num("3600"), Arr(<<>>), Undef, Bool("false")>>

\* The arguments of ee.data.setAuthToken for a token
SetAuthTokenArgs(token) ==
  <<Str(<<>>), Str(<<"Bearer">>), Str(<<token>>), Num("3600"), Arr(<<>>), Undef, Bool("false")>>

\* InitArgs that insists on a project: it rejects when project is not a string
InitArgs_StrictProject(o) ==
  IF TypeOf(o.project) # "string"
  THEN [reject |-> TRUE, msg |-> ProjectErrorMessage(o.project), args |-> <<>>]
  ELSE LET projectValue == IF Truthy(Trim(o.project)) THEN Trim(o.project) ELSE Null
           baseUrlValue ==
             IF Truthy(o.baseUrl) THEN Trim(StringOf(o.baseUrl)) ELSE Null
       IN [reject |-> FALSE, msg |-> "", args |-> <<baseUrlValue, Null, Null, projectValue>>]

\* The executor of the initialization promise of initEarthEngine: it rejects
\* with a message, or calls ee.initialize with the arguments
\* baseUrlValue, null, null, projectValue (the two callbacks left out)
InitArgs(o) ==
  IF Truthy(o.project) /\ TypeOf(o.project) # "string"
  THEN [reject |-> TRUE, msg |-> ProjectErrorMessage(o.project), args |-> <<>>]
  ELSE LET projectValue ==
             IF Truthy(o.project) /\ Truthy(Trim(o.project)) THEN Trim(o.project) ELSE Null
           baseUrlValue ==
             IF Truthy(o.baseUrl) THEN Trim(StringOf(o.baseUrl)) ELSE Null
       IN [reject |-> FALSE, msg |-> "", args |-> <<baseUrlValue, Null, Null, projectValue>>]

\* OAuthArgs that always requests the default scope
OAuthArgs_DefaultAlways(o) == <<o.clientId, DEFAULT_SCOPES, Null>>

\* The arguments of ee.data.authenticateViaOauth in initWithOAuth
OAuthArgs(o) ==
  <<o.clientId, IF o.scopes = Undef THEN DEFAULT_SCOPES ELSE o.scopes, Null>>

\* The executor of the initialization promise of initWithOAuth
OAuthInitArgs(o) ==
  LET projectValue ==
        IF Truthy(o.project) /\ TypeOf(o.project) = "string" THEN Trim(o.project) ELSE Null
  IN [reject |-> FALSE, msg |-> "", args |-> <<Null, Null, Null, projectValue>>]

InitArgsOf(k, o) == IF k = "oauth" THEN OAuthInitArgs(o) ELSE InitArgs(o)

\* ------------------------------------------------- the forwarding helpers
\* An opaque object of the library: an image, a geometry, a task, ...
Handle(name) == [t |-> "handle", v |-> <<name>>]

\* An options record of an export helper (Undef: the caller did not give the
\* field) and the record passed to the library (Absent: no such field)
NoExportOptions ==
  [image |-> Undef, collection |-> Undef, description |-> Undef, bucket |-> Undef,
   assetId |-> Undef, fileFormat |-> Undef, folder |-> Undef, fileNamePrefix |-> Undef,
   scale |-> Undef, crs |-> Undef, maxPixels |-> Undef, region |-> Undef,
   formatOptions |-> Undef, selectors |-> Undef]
EmptyExportRecord == [f \in DOMAIN NoExportOptions |-> Absent]

\* `if (x) exportOptions.name = x`
PutIf(rec, name, x) == IF Truthy(x) THEN [rec EXCEPT ![name] = x] ELSE rec

\* `fileFormat = 'GeoTIFF'` in a destructuring: the default replaces undefined
Default(x, d) == IF x = Undef THEN d ELSE x

\* exportOptions of exportImageToDrive
ImageToDriveOptions(image, o) ==
  LET base == [EmptyExportRecord EXCEPT !.image = image,
                                        !.description = o.description,
                                        !.fileFormat = Default(o.fileFormat, Str(<<"GeoTIFF">>))]
  IN PutIf(PutIf(PutIf(PutIf(PutIf(PutIf(base,
       "folder", o.folder), "scale", o.scale), "crs", o.crs),
       "maxPixels", o.maxPixels), "region", o.region), "formatOptions", o.formatOptions)

\* exportOptions of exportImageToCloudStorage
ImageToCloudStorageOptions(image, o) ==
  LET base == [EmptyExportRecord EXCEPT !.image = image,
                                        !.description = o.description,
                                        !.bucket = o.bucket,
                                        !.fileFormat = Default(o.fileFormat, Str(<<"GeoTIFF">>))]
  IN PutIf(PutIf(PutIf(PutIf(PutIf(PutIf(base,
       "fileNamePrefix", o.fileNamePrefix), "scale", o.scale), "crs", o.crs),
       "maxPixels", o.maxPixels), "region", o.region), "formatOptions", o.formatOptions)

\* exportOptions of exportTableToDrive
TableToDriveOptions(collection, o) ==
  LET base == [EmptyExportRecord EXCEPT !.collection = collection,
                                        !.description = o.description,
                                        !.fileFormat = Default(o.fileFormat, Str(<<"CSV">>))]
  IN PutIf(PutIf(base, "folder", o.folder), "selectors", o.selectors)

\* exportOptions of exportTableToCloudStorage
TableToCloudStorageOptions(collection, o) ==
  LET base == [EmptyExportRecord EXCEPT !.collection = collection,
                                        !.description = o.description,
                                        !.bucket = o.bucket,
                                        !.fileFormat = Default(o.fileFormat, Str(<<"CSV">>))]
  IN PutIf(PutIf(base, "fileNamePrefix", o.fileNamePrefix), "selectors", o.selectors)

\* exportOptions of exportImageToAsset
ImageToAssetOptions(image, description, assetId, o) ==
  LET base == [EmptyExportRecord EXCEPT !.image = image,
                                        !.description = description,
                                        !.assetId = assetId]
  IN PutIf(PutIf(PutIf(PutIf(base,
       "scale", o.scale), "crs", o.crs), "maxPixels", o.maxPixels), "region", o.region)

\* One call into the library: the function or method, the object it was
\* called on (Undef for a function of ee), its arguments, its options record
\* (for an export) and what the library returned
LibCall(fn, recv, args, o, ret) ==
  [fn |-> fn, recv |-> recv, args |-> args, opts |-> o, ret |-> ret]

\* What an exception leaves in place of a return value
Thrown(e) == [t |-> "thrown", v |-> <<e>>]

\* isInitialized without its try/catch
isInitializedResult_NoCatch(api) ==
  IF ~api.isFunction THEN Bool("false")
  ELSE IF api.throws THEN Thrown("getApiBaseUrl failed")
  ELSE Bool(IF api.ret # Null THEN "true" ELSE "false")

\* isInitialized, given how ee.data.getApiBaseUrl behaves
isInitializedResult(api) ==
  IF ~api.isFunction THEN Bool("false")
  ELSE IF api.throws THEN Bool("false")
  ELSE Bool(IF api.ret # Null THEN "true" ELSE "false")

\* The geometry helpers with `if (maxError)` for `if (maxError !== undefined)`
MaxErrorArgs_Truthy(args, maxError) ==
  IF Truthy(maxError) THEN args \o <<maxError>> ELSE args

\* The arguments of the library method of a geometry helper
MaxErrorArgs(args, maxError) ==
  IF maxError # Undef THEN args \o <<maxError>> ELSE args

\* createFeature without its test of properties
FeatureArgs_AlwaysTwo(geometry, properties) == <<geometry, properties>>

\* The arguments createFeature gives ee.Feature
FeatureArgs(geometry, properties) ==
  IF Truthy(properties) THEN <<geometry, properties>> ELSE <<geometry>>

\* compositeCollection ignoring its reducer
CompositeCalls_AlwaysMedian(collection, reducer, ret) ==
  <<LibCall("median", collection, <<>>, EmptyExportRecord, ret)>>

\* The library call of compositeCollection
CompositeCalls(collection, reducer, ret) ==
  IF Truthy(reducer)
  THEN <<LibCall("reduce", collection, <<reducer>>, EmptyExportRecord, ret)>>
  ELSE <<LibCall("median", collection, <<>>, EmptyExportRecord, ret)>>

\* loadImageCollection filtering by date before filtering by bounds
LoadImageCollectionCalls_DateFirst(collectionId, geometry, timeRange, r1, r2, r3) ==
  <<LibCall("ImageCollection", Undef, <<collectionId>>, EmptyExportRecord, r1),
    LibCall("filterDate", r1, <<GetProp(timeRange, "start"), GetProp(timeRange, "end")>>,
            EmptyExportRecord, r2),
    LibCall("filterBounds", r2, <<geometry>>, EmptyExportRecord, r3)>>

\* The chain of loadImageCollection; r1, r2, r3 are what the library returns
LoadImageCollectionCalls(collectionId, geometry, timeRange, r1, r2, r3) ==
  <<LibCall("ImageCollection", Undef, <<collectionId>>, EmptyExportRecord, r1),
    LibCall("filterBounds", r1, <<geometry>>, EmptyExportRecord, r2),
    LibCall("filterDate", r2, <<GetProp(timeRange, "start"), GetProp(timeRange, "end")>>,
            EmptyExportRecord, r3)>>

\* An array of library objects
List(s) == [t |-> "list", v |-> s]

\* featureCollectionFromGeometries building the list back to front
FeatureCollectionCalls_Reversed(geometries, features, ret) ==
  [i \in 1..Len(geometries) |->
     LibCall("Feature", Undef, <<geometries[i]>>, EmptyExportRecord, features[i])]
  \o <<LibCall("FeatureCollection", Undef,
               <<List([i \in 1..Len(features) |-> features[Len(features) + 1 - i]])>>,
               EmptyExportRecord, ret)>>

\* The calls of featureCollectionFromGeometries: geometries.map(...) and then
\* ee.FeatureCollection; features[i] is what ee.Feature returns the i-th time
FeatureCollectionCalls(geometries, features, ret) ==
  [i \in 1..Len(geometries) |->
     LibCall("Feature", Undef, <<geometries[i]>>, EmptyExportRecord, features[i])]
  \o <<LibCall("FeatureCollection", Undef, <<List(features)>>, EmptyExportRecord, ret)>>

\* startTasks with each start() in a try/catch of its own
RECURSIVE StartCalls_KeepGoing(_, _)
StartCalls_KeepGoing(tasks, outcomes) ==
  IF tasks = <<>> THEN <<>>
  ELSE <<LibCall("start", Head(tasks), <<>>, EmptyExportRecord,
                 IF Head(outcomes) = "throws" THEN Thrown("start failed") ELSE Undef)>>
       \o StartCalls_KeepGoing(Tail(tasks), Tail(outcomes))

\* The calls of startTasks: `for (const task of tasks) task.start()`;
\* outcomes[i] says whether start() of tasks[i] returns or throws when called
RECURSIVE StartCalls(_, _)
StartCalls(tasks, outcomes) ==
  IF tasks = <<>> THEN <<>>
  ELSE IF Head(outcomes) = "throws"
  THEN <<LibCall("start", Head(tasks), <<>>, EmptyExportRecord, Thrown("start failed"))>>
  ELSE <<LibCall("start", Head(tasks), <<>>, EmptyExportRecord, Undef)>>
       \o StartCalls(Tail(tasks), Tail(outcomes))

\* What startTasks leaves its caller with: nothing, or the exception of the
\* start() that threw
StartResult(calls) ==
  IF calls # <<>> /\ calls[Len(calls)].ret.t = "thrown" THEN calls[Len(calls)].ret
  ELSE Undef

\* ------------------------------------------------------------------- state
VARIABLES
  pc,       \* pc[c]: where call c stands: idle, awaitAuth, awaitToken, awaitInit, done
  kind,     \* kind[c]: "init" for initEarthEngine, "oauth" for initWithOAuth
  opts,     \* opts[c]: the options record call c was made with
  authP,    \* authP[c]: the promise around the authentication entry point
  tokP,     \* tokP[c]: the promise tokenRetriever returned
  initP,    \* initP[c]: the promise around ee.initialize
  held,     \* held[c][s]: the library holds the two callbacks of step s
  reports,  \* reports[c][s]: what the library passed to the callbacks of step s
  result,   \* result[c]: the promise the call returned to its caller
  log,      \* the calls made into the library and into tokenRetriever, in order
  hfn,      \* the helper function called last, "none" before and between calls
  hargs,    \* its positional arguments
  hopts,    \* its options record, for an export helper
  hcalls,   \* the calls it made into the library, in order, with their results
  hret      \* what it returned

cvars == <<pc, kind, opts, authP, tokP, initP, held, reports, result, log>>
hvars == <<hfn, hargs, hopts, hcalls, hret>>
vars == <<pc, kind, opts, authP, tokP, initP, held, reports, result, log,
          hfn, hargs, hopts, hcalls, hret>>

NoPromise == [st |-> "none", v |-> ""]
Pending == [st |-> "pending", v |-> ""]
Fulfilled(x) == [st |-> "fulfilled", v |-> x]
Rejected(e) == [st |-> "rejected", v |-> e]
\* Settled with a pending promise taken for a settled one: a missing await
Settled_NoAwait(p) == p.st \in {"pending", "fulfilled", "rejected"}
Settled(p) == p.st \in {"fulfilled", "rejected"}

\* A promise that every resolve / reject settles anew
Settle_LastWins(p, q) == q

\* resolve(x) / reject(e) of a promise: only a pending promise changes
Settle(p, q) == IF p.st = "pending" THEN q ELSE p

SyncOutcomes == {"returns", "throws"}

Entry(c, fn, args) == [call |-> c, fn |-> fn, args |-> args]

\* The positions in the log of the calls of fn that call c made
Positions(c, fn) == {i \in 1 .. Len(log) : log[i].call = c /\ log[i].fn = fn}
Count(c, fn) == Cardinality(Positions(c, fn))
\* The position of the first such call, 0 when there is none
Pos(c, fn) ==
  IF Positions(c, fn) = {} THEN 0
  ELSE CHOOSE i \in Positions(c, fn) : \A j \in Positions(c, fn) : i <= j

Init ==
  /\ pc = [c \in Calls |-> "idle"]
  /\ kind = [c \in Calls |-> "none"]
  /\ opts = [c \in Calls |-> NoOptions]
  /\ authP = [c \in Calls |-> NoPromise]
  /\ tokP = [c \in Calls |-> NoPromise]
  /\ initP = [c \in Calls |-> NoPromise]
  /\ held = [c \in Calls |-> [s \in Steps |-> FALSE]]
  /\ reports = [c \in Calls |-> [s \in Steps |-> <<>>]]
  /\ result = [c \in Calls |-> NoPromise]
  /\ log = <<>>
  /\ hfn = "none"
  /\ hargs = <<>>
  /\ hopts = NoExportOptions
  /\ hcalls = <<>>
  /\ hret = Undef

\* ----------------------------------------------- the steps of the two calls
\* new Promise(executor) around an authentication entry point fn: the entry
\* point is called with args and the two callbacks; a throw of the entry point
\* rejects the promise.  The call then awaits the promise.
AuthenticateStep(c, fn, args, th) ==
  /\ log' = Append(log, Entry(c, fn, args))
  /\ authP' = [authP EXCEPT ![c] = IF th = "throws" THEN Rejected("X1") ELSE Pending]
  /\ held' = [held EXCEPT ![c]["auth"] = (th = "returns")]
  /\ pc' = [pc EXCEPT ![c] = "awaitAuth"]
  /\ UNCHANGED <<tokP, initP, reports, result>>

\* An exception in the body of the async function rejects the returned promise
ThrowFromBody(c, e) ==
  /\ result' = [result EXCEPT ![c] = Rejected(e)]
  /\ pc' = [pc EXCEPT ![c] = "done"]
  /\ UNCHANGED <<authP, tokP, initP, held, reports, log>>

\* const token = await tokenRetriever()
TokenRetrieverStep(c, th) ==
  /\ log' = Append(log, Entry(c, "tokenRetriever", <<>>))
  /\ IF th = "throws"
     THEN /\ result' = [result EXCEPT ![c] = Rejected("R1")]
          /\ pc' = [pc EXCEPT ![c] = "done"]
          /\ tokP' = tokP
     ELSE /\ tokP' = [tokP EXCEPT ![c] = Pending]
          /\ pc' = [pc EXCEPT ![c] = "awaitToken"]
          /\ result' = result
  /\ UNCHANGED <<authP, initP, held, reports>>

\* await new Promise(executor) of the initialization: the executor runs at
\* once, after the calls lg already made in this turn
InitializeStep(c, k, o, lg, th) ==
  LET r == InitArgsOf(k, o)
  IN /\ pc' = [pc EXCEPT ![c] = "awaitInit"]
     /\ IF r.reject
        THEN /\ initP' = [initP EXCEPT ![c] = Rejected(r.msg)]
             /\ log' = lg
             /\ held' = held
        ELSE /\ log' = Append(lg, Entry(c, "initialize", r.args))
             /\ initP' = [initP EXCEPT ![c] = IF th = "throws" THEN Rejected("X1") ELSE Pending]
             /\ held' = [held EXCEPT ![c]["init"] = (th = "returns")]
     /\ UNCHANGED <<authP, tokP, reports, result>>

\* initEarthEngine(o), up to its first await.  th is what the first call
\* out of the package does: return or throw.
\* FirstTurn with the type of project checked on entry, before any
\* authentication
FirstTurn_CheckProjectFirst(c, o, th) ==
  /\ kind' = [kind EXCEPT ![c] = "init"]
  /\ opts' = [opts EXCEPT ![c] = o]
  /\ IF InitArgs(o).reject THEN ThrowFromBody(c, InitArgs(o).msg)
     ELSE LET path == SelectPath(o)
          IN CASE path = "pair" ->
                    AuthenticateStep(c, "authenticateViaPrivateKey", PairCredentials(o), th)
               [] path = "json" ->
                    LET parsedCredentials == parseServiceAccountKey(o.privateKeyJson)
                    IN IF parsedCredentials.throws
                       THEN ThrowFromBody(c, parsedCredentials.err)
                       ELSE AuthenticateStep(c, "authenticateViaPrivateKey",
                                             JsonCredentials(o, parsedCredentials.val), th)
               [] path = "token" -> TokenRetrieverStep(c, th)
               [] OTHER -> InitializeStep(c, "init", o, log, th)

\* initEarthEngine(o) from its call to its first await, or to its end
FirstTurn(c, o, th) ==
  /\ kind' = [kind EXCEPT ![c] = "init"]
  /\ opts' = [opts EXCEPT ![c] = o]
  /\ LET path == SelectPath(o)
     IN CASE path = "pair" ->
               AuthenticateStep(c, "authenticateViaPrivateKey", PairCredentials(o), th)
          [] path = "json" ->
               LET parsedCredentials == parseServiceAccountKey(o.privateKeyJson)
               IN IF parsedCredentials.throws
                  THEN ThrowFromBody(c, parsedCredentials.err)
                  ELSE AuthenticateStep(c, "authenticateViaPrivateKey",
                                        JsonCredentials(o, parsedCredentials.val), th)
          [] path = "token" -> TokenRetrieverStep(c, th)
          [] OTHER -> InitializeStep(c, "init", o, log, th)

initEarthEngine(c) ==
  /\ \A d \in Calls : pc[d] = "idle"
  /\ \E o \in InitOptions, th \in SyncOutcomes : FirstTurn(c, o, th)
  /\ UNCHANGED hvars

\* initWithOAuth(o), up to its first await
initWithOAuth(c) ==
  /\ \A d \in Calls : pc[d] = "idle"
  /\ \E o \in OAuthOptionSet, th \in SyncOutcomes :
       /\ kind' = [kind EXCEPT ![c] = "oauth"]
       /\ opts' = [opts EXCEPT ![c] = o]
       /\ AuthenticateStep(c, "authenticateViaOauth", OAuthArgs(o), th)
  /\ UNCHANGED hvars

\* AuthCallback with an error callback that rejects with an error of its own
AuthCallback_OwnError(c, out) ==
  /\ held[c]["auth"]
  /\ reports[c]["auth"] = <<>>
  /\ reports' = [reports EXCEPT ![c]["auth"] = Append(@, out)]
  /\ authP' = [authP EXCEPT ![c] =
                 Settle(@, IF out = "ok" THEN Fulfilled("") ELSE Rejected("Authentication failed"))]
  /\ UNCHANGED <<pc, kind, opts, tokP, initP, held, result, log>>
  /\ UNCHANGED hvars

\* The library invokes a callback of the authentication step: out is "ok" for
\* the success callback, an error for the error callback
AuthCallback(c, out) ==
  /\ held[c]["auth"]
  /\ reports[c]["auth"] = <<>>
  /\ reports' = [reports EXCEPT ![c]["auth"] = Append(@, out)]
  /\ authP' = [authP EXCEPT ![c] = Settle(@, IF out = "ok" THEN Fulfilled("") ELSE Rejected(out))]
  /\ UNCHANGED <<pc, kind, opts, tokP, initP, held, result, log>>
  /\ UNCHANGED hvars

\* The library invokes a callback of ee.initialize
InitCallback(c, out) ==
  /\ held[c]["init"]
  /\ reports[c]["init"] = <<>>
  /\ reports' = [reports EXCEPT ![c]["init"] = Append(@, out)]
  /\ initP' = [initP EXCEPT ![c] = Settle(@, IF out = "ok" THEN Fulfilled("") ELSE Rejected(out))]
  /\ UNCHANGED <<pc, kind, opts, authP, tokP, held, result, log>>
  /\ UNCHANGED hvars

\* The promise of tokenRetriever settles: with a token, or with an error
TokenSettles(c, out) ==
  /\ tokP[c].st = "pending"
  /\ tokP' = [tokP EXCEPT ![c] = IF out \in Tokens THEN Fulfilled(out) ELSE Rejected(out)]
  /\ UNCHANGED <<pc, kind, opts, authP, initP, held, reports, result, log>>
  /\ UNCHANGED hvars

\* ResumeAfterAuth with a retry: a failed authentication is attempted again
ResumeAfterAuth_Retry(c, th) ==
  /\ pc[c] = "awaitAuth"
  /\ Settled(authP[c])
  /\ IF authP[c].st = "rejected"
     THEN LET first == log[Pos(c, IF kind[c] = "oauth" THEN "authenticateViaOauth"
                                  ELSE "authenticateViaPrivateKey")]
          IN AuthenticateStep(c, first.fn, first.args, th)
     ELSE InitializeStep(c, kind[c], opts[c], log, th)
  /\ UNCHANGED <<kind, opts>>
  /\ UNCHANGED hvars

\* ResumeAfterAuth that goes on to the initialization after a failed
\* authentication
ResumeAfterAuth_IgnoreFailure(c, th) ==
  /\ pc[c] = "awaitAuth"
  /\ Settled(authP[c])
  /\ InitializeStep(c, kind[c], opts[c], log, th)
  /\ UNCHANGED <<kind, opts>>
  /\ UNCHANGED hvars

\* ResumeAfterAuth where initWithOAuth does not await its authentication
\* promise's outcome: it initializes after a failed sign-in too
ResumeAfterAuth_OAuthInitializesAnyway(c, th) ==
  /\ pc[c] = "awaitAuth"
  /\ Settled(authP[c])
  /\ IF authP[c].st = "rejected" /\ kind[c] # "oauth"
     THEN ThrowFromBody(c, authP[c].v)
     ELSE InitializeStep(c, kind[c], opts[c], log, th)
  /\ UNCHANGED <<kind, opts>>
  /\ UNCHANGED hvars

\* ResumeAfterAuth with a timeout: the call gives up on an authentication
\* that has not reported
ResumeAfterAuth_Timeout(c, th) ==
  /\ pc[c] = "awaitAuth"
  /\ IF authP[c].st = "pending" THEN ThrowFromBody(c, "timeout")
     ELSE IF authP[c].st = "rejected" THEN ThrowFromBody(c, authP[c].v)
     ELSE InitializeStep(c, kind[c], opts[c], log, th)
  /\ UNCHANGED <<kind, opts>>
  /\ UNCHANGED hvars

\* The call resumes after the await of the authentication promise
ResumeAfterAuth(c, th) ==
  /\ pc[c] = "awaitAuth"
  /\ Settled(authP[c])
  /\ IF authP[c].st = "rejected"
     THEN ThrowFromBody(c, authP[c].v)
     ELSE InitializeStep(c, kind[c], opts[c], log, th)
  /\ UNCHANGED <<kind, opts>>
  /\ UNCHANGED hvars

\* The call resumes after the await of tokenRetriever(): setAuthToken, then
\* the initialization step in the same turn
ResumeAfterToken(c, thSet, th) ==
  /\ pc[c] = "awaitToken"
  /\ Settled(tokP[c])
  /\ IF tokP[c].st = "rejected"
     THEN ThrowFromBody(c, tokP[c].v)
     ELSE LET lg == Append(log, Entry(c, "setAuthToken", SetAuthTokenArgs(tokP[c].v)))
          IN IF thSet = "throws"
             THEN /\ log' = lg
                  /\ result' = [result EXCEPT ![c] = Rejected("X1")]
                  /\ pc' = [pc EXCEPT ![c] = "done"]
                  /\ UNCHANGED <<authP, tokP, initP, held, reports>>
             ELSE InitializeStep(c, kind[c], opts[c], lg, th)
  /\ UNCHANGED <<kind, opts>>
  /\ UNCHANGED hvars

\* ResumeAfterInit that returns ee whatever the initialization promise says
ResumeAfterInit_Swallow(c) ==
  /\ pc[c] = "awaitInit"
  /\ Settled(initP[c])
  /\ result' = [result EXCEPT ![c] = Fulfilled(TheEE)]
  /\ pc' = [pc EXCEPT ![c] = "done"]
  /\ UNCHANGED <<kind, opts, authP, tokP, initP, held, reports, log>>
  /\ UNCHANGED hvars

\* The call resumes after the await of the initialization promise: return ee
ResumeAfterInit(c) ==
  /\ pc[c] = "awaitInit"
  /\ Settled(initP[c])
  /\ result' = [result EXCEPT ![c] =
                  IF initP[c].st = "rejected" THEN Rejected(initP[c].v) ELSE Fulfilled(TheEE)]
  /\ pc' = [pc EXCEPT ![c] = "done"]
  /\ UNCHANGED <<kind, opts, authP, tokP, initP, held, reports, log>>
  /\ UNCHANGED hvars

\* The caller has seen the result; the slot is free for the next call
Return(c) ==
  /\ pc[c] = "done"
  /\ pc' = [pc EXCEPT ![c] = "idle"]
  /\ kind' = [kind EXCEPT ![c] = "none"]
  /\ opts' = [opts EXCEPT ![c] = NoOptions]
  /\ authP' = [authP EXCEPT ![c] = NoPromise]
  /\ tokP' = [tokP EXCEPT ![c] = NoPromise]
  /\ initP' = [initP EXCEPT ![c] = NoPromise]
  /\ held' = [held EXCEPT ![c] = [s \in Steps |-> FALSE]]
  /\ reports' = [reports EXCEPT ![c] = [s \in Steps |-> <<>>]]
  /\ result' = [result EXCEPT ![c] = NoPromise]
  /\ log' = SelectSeq(log, LAMBDA e : e.call # c)
  /\ UNCHANGED hvars

Next ==
  \E c \in Calls :
    \/ initEarthEngine(c)
    \/ initWithOAuth(c)
    \/ \E out \in {"ok"} \cup CallbackErrors : AuthCallback(c, out)
    \/ \E out \in {"ok"} \cup CallbackErrors : InitCallback(c, out)
    \/ \E out \in Tokens \cup RetrieverErrors : TokenSettles(c, out)
    \/ \E th \in SyncOutcomes : ResumeAfterAuth(c, th)
    \/ \E thSet \in SyncOutcomes, th \in SyncOutcomes : ResumeAfterToken(c, thSet, th)
    \/ ResumeAfterInit(c)
    \/ Return(c)

Spec == Init /\ [][Next]_vars

\* Success, and one error, are enough to tell the outcomes of a step apart
TwoReports == {"ok", "E1"}

\* Two sets of credentials to tell the calls apart
OverlapOptions ==
  {[NoOptions EXCEPT !.email = Str(<<"sep@x">>), !.privateKey = Str(<<"SEPKEY">>)],
   [NoOptions EXCEPT !.privateKeyJson = Str(JsonKeyText)]}

\* ------------------------------------- a library that fires callbacks again
\* One caller at a time, with the credentials of OverlapOptions
initEarthEngineAlone(c) ==
  /\ \A d \in Calls : pc[d] = "idle"
  /\ \E o \in OverlapOptions, th \in SyncOutcomes : FirstTurn(c, o, th)
  /\ UNCHANGED hvars

\* The library invokes a callback of the authentication step, for the first
\* time or again, while the call runs or after it has ended
AuthCallbackRepeated(c, out) ==
  /\ held[c]["auth"]
  /\ Len(reports[c]["auth"]) < MaxFires
  /\ reports' = [reports EXCEPT ![c]["auth"] = Append(@, out)]
  /\ authP' = [authP EXCEPT ![c] = Settle(@, IF out = "ok" THEN Fulfilled("") ELSE Rejected(out))]
  /\ UNCHANGED <<pc, kind, opts, tokP, initP, held, result, log>>
  /\ UNCHANGED hvars

\* The library invokes a callback of ee.initialize, for the first time or again
InitCallbackRepeated(c, out) ==
  /\ held[c]["init"]
  /\ Len(reports[c]["init"]) < MaxFires
  /\ reports' = [reports EXCEPT ![c]["init"] = Append(@, out)]
  /\ initP' = [initP EXCEPT ![c] = Settle(@, IF out = "ok" THEN Fulfilled("") ELSE Rejected(out))]
  /\ UNCHANGED <<pc, kind, opts, authP, tokP, held, result, log>>
  /\ UNCHANGED hvars

NextRepeat ==
  \E c \in Calls :
    \/ initEarthEngineAlone(c)
    \/ \E out \in {"ok"} \cup CallbackErrors : AuthCallbackRepeated(c, out)
    \/ \E out \in {"ok"} \cup CallbackErrors : InitCallbackRepeated(c, out)
    \/ \E th \in SyncOutcomes : ResumeAfterAuth(c, th)
    \/ ResumeAfterInit(c)
    \/ Return(c)

SpecRepeat == Init /\ [][NextRepeat]_vars

\* ------------------------------------------- one call after the other, kept
\* The calls of a sequence take the slots 1, 2, ... in this order and keep
\* them, so that the record shows the whole sequence.  A call may start while
\* the one before it is pending or after it has ended; the calls before that
\* one have ended.  Entry points that throw are left to Spec.
SequenceOAuthOptions == {o \in OAuthOptionSet : o.scopes = Undef /\ o.project = Undef}
NextInSequence(c) ==
  /\ pc[c] = "idle"
  /\ \A d \in Calls : d < c => pc[d] # "idle"
  /\ \A d \in Calls : d < c - 1 => pc[d] = "done"

\* initEarthEngine that remembers a success: once a call has resolved, later
\* calls resolve at once
initEarthEngineAgain_Remembering(c) ==
  /\ NextInSequence(c)
  /\ \E o \in OverlapOptions :
       IF \E d \in Calls : result[d].st = "fulfilled"
       THEN /\ kind' = [kind EXCEPT ![c] = "init"]
            /\ opts' = [opts EXCEPT ![c] = o]
            /\ result' = [result EXCEPT ![c] = Fulfilled(TheEE)]
            /\ pc' = [pc EXCEPT ![c] = "done"]
            /\ UNCHANGED <<authP, tokP, initP, held, reports, log>>
       ELSE FirstTurn(c, o, "returns")
  /\ UNCHANGED hvars

\* initEarthEngine(o) as the next call of the sequence
initEarthEngineAgain(c) ==
  /\ NextInSequence(c)
  /\ \E o \in OverlapOptions : FirstTurn(c, o, "returns")
  /\ UNCHANGED hvars

\* initWithOAuth(o) as the next call of the sequence
initWithOAuthAgain(c) ==
  /\ NextInSequence(c)
  /\ \E o \in SequenceOAuthOptions :
       /\ kind' = [kind EXCEPT ![c] = "oauth"]
       /\ opts' = [opts EXCEPT ![c] = o]
       /\ AuthenticateStep(c, "authenticateViaOauth", OAuthArgs(o), "returns")
  /\ UNCHANGED hvars

\* resetClient(): ee.reset(), recorded as a call of no slot
resetClient ==
  /\ Count(0, "reset") < MaxResets
  /\ log' = Append(log, Entry(0, "reset", <<>>))
  /\ UNCHANGED <<pc, kind, opts, authP, tokP, initP, held, reports, result>>
  /\ UNCHANGED hvars

NextSequence ==
  \/ \E c \in Calls :
       \/ initEarthEngineAgain(c)
       \/ initWithOAuthAgain(c)
       \/ \E out \in TwoReports : AuthCallback(c, out)
       \/ \E out \in TwoReports : InitCallback(c, out)
       \/ ResumeAfterAuth(c, "returns")
       \/ ResumeAfterInit(c)
  \/ resetClient

SpecSequence == Init /\ [][NextSequence]_vars

\* The continuation of an await runs once the awaited promise has settled: the
\* runtime's job queue is served.  Nothing makes the library report, the
\* token retriever settle, or the caller call.
Fairness ==
  \A c \in Calls :
    /\ WF_vars(\E th \in SyncOutcomes : ResumeAfterAuth(c, th))
    /\ WF_vars(\E thSet \in SyncOutcomes, th \in SyncOutcomes : ResumeAfterToken(c, thSet, th))
    /\ WF_vars(ResumeAfterInit(c))

SpecFair == Init /\ [][Next]_vars /\ Fairness

\* ------------------------------------- callers that do not wait for each other
\* initEarthEngine remembering a sign-in: a call that finds the authentication
\* of another call done goes straight to ee.initialize
initEarthEngineOverlapping_SharedSignIn(c) ==
  /\ pc[c] = "idle"
  /\ \E o \in OverlapOptions, th \in SyncOutcomes :
       IF \E d \in Calls : authP[d].st = "fulfilled"
       THEN /\ kind' = [kind EXCEPT ![c] = "init"]
            /\ opts' = [opts EXCEPT ![c] = o]
            /\ InitializeStep(c, "init", o, log, th)
       ELSE FirstTurn(c, o, th)
  /\ UNCHANGED hvars

\* initEarthEngine(o) called while other calls may be in flight: the function
\* looks at nothing but its argument
initEarthEngineOverlapping(c) ==
  /\ pc[c] = "idle"
  /\ \E o \in OverlapOptions, th \in SyncOutcomes : FirstTurn(c, o, th)
  /\ UNCHANGED hvars

NextOverlap ==
  \E c \in Calls :
    \/ initEarthEngineOverlapping(c)
    \/ \E out \in TwoReports : AuthCallback(c, out)
    \/ \E out \in TwoReports : InitCallback(c, out)
    \/ \E th \in SyncOutcomes : ResumeAfterAuth(c, th)
    \/ ResumeAfterInit(c)
    \/ Return(c)

SpecOverlap == Init /\ [][NextOverlap]_vars

\* --------------------------------------------------- the helpers, one call
\* ----------------------------------------------------------------- at a time
\* How ee.data.getApiBaseUrl can behave when isInitialized looks at it
ApiBehaviours ==
  {[isFunction |-> FALSE, throws |-> FALSE, ret |-> Undef]} \cup
  {[isFunction |-> TRUE, throws |-> TRUE, ret |-> Undef]} \cup
  [isFunction : {TRUE}, throws : {FALSE},
   ret : {Str(<<"https://earthengine.googleapis.com">>), Str(<<>>), Null, Undef}]

Images == {Handle("image")}
FeatureCollections == {Handle("features")}
ImageCollections == {Handle("collection")}
Geometries == {Handle("geometry")}
OtherGeometries == {Handle("other")}
Reducers == {Undef, Handle("reducer")}
\* What the library hands back: two values, to tell a result from a constant
LibraryResults == {Handle("result1"), Handle("result2")}
CollectionIds == {Str(<<"LANDSAT/LC08/C02/T1_L2">>)}
TimeRanges == {Obj(<<"start", "2020-01-01", "end", "2020-12-31">>)}
MaxErrors == {Undef, Null, Num("0"), Num("1")}
PropertyRecords == {Undef, Null, Obj(<<>>), Obj(<<"name", "x">>)}
Descriptions == {Str(<<"my_export">>)}
Buckets == {Str(<<"my-bucket">>)}
AssetIds == {Str(<<"users/me/asset">>)}
Folders == {Undef, Str(<<>>), Str(<<"EarthEngine">>)}
FileNamePrefixes == {Undef, Str(<<>>), Str(<<"exports/landsat">>)}
Scales == {Undef, Num("0"), Num("30")}
Crss == {Undef, Str(<<"EPSG:4326">>)}
MaxPixelss == {Undef, Num("0"), Num("1e9")}
Regions == {Undef, Handle("region")}
ImageFileFormats == {Undef, Str(<<"TFRecord">>)}
TableFileFormats == {Undef, Str(<<"GeoJSON">>)}
FormatOptionss == {Undef, Obj(<<"cloudOptimized", "true">>)}
Selectorss == {Undef, Arr(<<>>), Arr(<<"name">>)}

\* The option records a caller can pass to each export helper
Only(S) == IF S = {} THEN {Undef} ELSE S
ExportOptionSet(desc, bucket, fmt, folder, prefix, scale, crs, maxPixels, region, fo, sel) ==
  [image : {Undef}, collection : {Undef}, assetId : {Undef},
   description : Only(desc), bucket : Only(bucket), fileFormat : Only(fmt),
   folder : Only(folder), fileNamePrefix : Only(prefix), scale : Only(scale),
   crs : Only(crs), maxPixels : Only(maxPixels), region : Only(region),
   formatOptions : Only(fo), selectors : Only(sel)]
DriveExportOptions ==
  ExportOptionSet(Descriptions, {}, ImageFileFormats, Folders, {}, Scales, Crss,
                  MaxPixelss, Regions, FormatOptionss, {})
CloudStorageExportOptions ==
  ExportOptionSet(Descriptions, Buckets, ImageFileFormats, {}, FileNamePrefixes, Scales,
                  Crss, MaxPixelss, Regions, FormatOptionss, {})
TableDriveExportOptions ==
  ExportOptionSet(Descriptions, {}, TableFileFormats, Folders, {}, {}, {}, {}, {}, {},
                  Selectorss)
TableCloudStorageExportOptions ==
  ExportOptionSet(Descriptions, Buckets, TableFileFormats, {}, FileNamePrefixes, {}, {},
                  {}, {}, {}, Selectorss)
AssetExportOptions ==
  ExportOptionSet({}, {}, {}, {}, {}, Scales, Crss, MaxPixelss, Regions, {}, {})

\* A helper runs from its call to its return in one step: it is synchronous
\* and the library functions it wraps only build objects.
HelperCall(fn, args, o, calls, ret) ==
  /\ hfn' = fn
  /\ hargs' = args
  /\ hopts' = o
  /\ hcalls' = calls
  /\ hret' = ret

isInitialized ==
  /\ hfn = "none"
  /\ \E api \in ApiBehaviours :
       HelperCall("isInitialized", <<api>>, NoExportOptions,
                  IF api.isFunction
                  THEN <<LibCall("getApiBaseUrl", Undef, <<>>, EmptyExportRecord,
                                 IF api.throws THEN Thrown("getApiBaseUrl failed") ELSE api.ret)>>
                  ELSE <<>>,
                  isInitializedResult(api))
  /\ UNCHANGED cvars

\* An export helper: one call of the library's export function with the
\* record built from the options; the task comes back as it is
ExportCall(fn, args, o, libfn, exportOptions) ==
  \E task \in LibraryResults :
    HelperCall(fn, args, o, <<LibCall(libfn, Undef, <<>>, exportOptions, task)>>, task)

exportImageToDrive ==
  /\ hfn = "none"
  /\ \E image \in Images, o \in DriveExportOptions :
       ExportCall("exportImageToDrive", <<image>>, o, "Export.image.toDrive",
                  ImageToDriveOptions(image, o))
  /\ UNCHANGED cvars

exportImageToCloudStorage ==
  /\ hfn = "none"
  /\ \E image \in Images, o \in CloudStorageExportOptions :
       ExportCall("exportImageToCloudStorage", <<image>>, o, "Export.image.toCloudStorage",
                  ImageToCloudStorageOptions(image, o))
  /\ UNCHANGED cvars

exportTableToDrive ==
  /\ hfn = "none"
  /\ \E collection \in FeatureCollections, o \in TableDriveExportOptions :
       ExportCall("exportTableToDrive", <<collection>>, o, "Export.table.toDrive",
                  TableToDriveOptions(collection, o))
  /\ UNCHANGED cvars

exportTableToCloudStorage ==
  /\ hfn = "none"
  /\ \E collection \in FeatureCollections, o \in TableCloudStorageExportOptions :
       ExportCall("exportTableToCloudStorage", <<collection>>, o, "Export.table.toCloudStorage",
                  TableToCloudStorageOptions(collection, o))
  /\ UNCHANGED cvars

exportImageToAsset ==
  /\ hfn = "none"
  /\ \E image \in Images, description \in Descriptions, assetId \in AssetIds,
        o \in AssetExportOptions :
       ExportCall("exportImageToAsset", <<image, description, assetId>>, o,
                  "Export.image.toAsset", ImageToAssetOptions(image, description, assetId, o))
  /\ UNCHANGED cvars

\* geometry.m() or geometry.m(maxError)
UnaryGeometryHelper(fn) ==
  \E geometry \in Geometries, maxError \in MaxErrors, ret \in LibraryResults :
    HelperCall(fn, <<geometry, maxError>>, NoExportOptions,
               <<LibCall(fn, geometry, MaxErrorArgs(<<>>, maxError), EmptyExportRecord, ret)>>,
               ret)

\* geometry1.m(geometry2) or geometry1.m(geometry2, maxError)
BinaryGeometryHelper(fn) ==
  \E geometry1 \in Geometries, geometry2 \in OtherGeometries, maxError \in MaxErrors,
     ret \in LibraryResults :
    HelperCall(fn, <<geometry1, geometry2, maxError>>, NoExportOptions,
               <<LibCall(fn, geometry1, MaxErrorArgs(<<geometry2>>, maxError),
                         EmptyExportRecord, ret)>>,
               ret)

centroid ==
  /\ hfn = "none"
  /\ UnaryGeometryHelper("centroid")
  /\ UNCHANGED cvars

bounds ==
  /\ hfn = "none"
  /\ UnaryGeometryHelper("bounds")
  /\ UNCHANGED cvars

area ==
  /\ hfn = "none"
  /\ UnaryGeometryHelper("area")
  /\ UNCHANGED cvars

union ==
  /\ hfn = "none"
  /\ BinaryGeometryHelper("union")
  /\ UNCHANGED cvars

intersection ==
  /\ hfn = "none"
  /\ BinaryGeometryHelper("intersection")
  /\ UNCHANGED cvars

difference ==
  /\ hfn = "none"
  /\ BinaryGeometryHelper("difference")
  /\ UNCHANGED cvars

createFeature ==
  /\ hfn = "none"
  /\ \E geometry \in Geometries, properties \in PropertyRecords, ret \in LibraryResults :
       HelperCall("createFeature", <<geometry, properties>>, NoExportOptions,
                  <<LibCall("Feature", Undef, FeatureArgs(geometry, properties),
                            EmptyExportRecord, ret)>>,
                  ret)
  /\ UNCHANGED cvars

compositeCollection ==
  /\ hfn = "none"
  /\ \E collection \in ImageCollections, reducer \in Reducers, ret \in LibraryResults :
       HelperCall("compositeCollection", <<collection, reducer>>, NoExportOptions,
                  CompositeCalls(collection, reducer, ret), ret)
  /\ UNCHANGED cvars

loadImageCollection ==
  /\ hfn = "none"
  /\ \E collectionId \in CollectionIds, geometry \in Geometries, timeRange \in TimeRanges,
        r1 \in LibraryResults, r2 \in LibraryResults, r3 \in LibraryResults :
       LET calls == LoadImageCollectionCalls(collectionId, geometry, timeRange, r1, r2, r3)
       IN HelperCall("loadImageCollection", <<collectionId, geometry, timeRange>>,
                     NoExportOptions, calls, calls[Len(calls)].ret)
  /\ UNCHANGED cvars

GeometryLists == SeqsUpTo(Geometries \cup OtherGeometries, MaxListLen)
Features == {Handle("feature1"), Handle("feature2")}
TaskLists == SeqsUpTo({Handle("task1"), Handle("task2")}, MaxListLen)

featureCollectionFromGeometries ==
  /\ hfn = "none"
  /\ \E geometries \in GeometryLists, ret \in LibraryResults :
       \E features \in [1..Len(geometries) -> Features] :
         HelperCall("featureCollectionFromGeometries", <<List(geometries)>>, NoExportOptions,
                    FeatureCollectionCalls(geometries, features, ret), ret)
  /\ UNCHANGED cvars

startTasks ==
  /\ hfn = "none"
  /\ \E tasks \in TaskLists :
       \E outcomes \in [1..Len(tasks) -> SyncOutcomes] :
         LET calls == StartCalls(tasks, outcomes)
         IN HelperCall("startTasks", <<List(tasks), List(outcomes)>>, NoExportOptions,
                       calls, StartResult(calls))
  /\ UNCHANGED cvars

\* The caller has the helper's result and may call the next one
HelperReturn ==
  /\ hfn # "none"
  /\ hfn' = "none"
  /\ hargs' = <<>>
  /\ hopts' = NoExportOptions
  /\ hcalls' = <<>>
  /\ hret' = Undef
  /\ UNCHANGED cvars

NextHelpers ==
  \/ isInitialized
  \/ exportImageToDrive
  \/ exportImageToCloudStorage
  \/ exportTableToDrive
  \/ exportTableToCloudStorage
  \/ exportImageToAsset
  \/ centroid
  \/ bounds
  \/ area
  \/ union
  \/ intersection
  \/ difference
  \/ createFeature
  \/ compositeCollection
  \/ loadImageCollection
  \/ featureCollectionFromGeometries
  \/ startTasks
  \/ HelperReturn

SpecHelpers == Init /\ [][NextHelpers]_vars

\* ------------------------------------------------- reading the call record
NonEmptyString(x) == x.t = "string" /\ Len(x.v) > 0
\* The credential inputs of an options record, as the caller sees them
HasPair(o) == NonEmptyString(o.email) /\ NonEmptyString(o.privateKey)
HasKeyJson(o) == NonEmptyString(o.privateKeyJson) \/ o.privateKeyJson.t = "object"
HasRetriever(o) == o.tokenRetriever.t = "function"
BadProject(o) == o.project.t \in {"number", "boolean", "object"} /\ o.project # Num("0")

\* ------------------------------------------------------------------ claims
\* C1: initEarthEngine takes exactly one authentication path, by fixed
\* priority.  With a non-empty email and a non-empty privateKey it calls
\* authenticateViaPrivateKey once with that pair and calls neither
\* tokenRetriever nor setAuthToken, whatever privateKeyJson and tokenRetriever
\* are; else with privateKeyJson set (a non-empty string or an object) it uses
\* it (it calls authenticateViaPrivateKey once, or rejects because the text
\* does not parse) and never calls tokenRetriever; else with a tokenRetriever
\* it calls it and never authenticateViaPrivateKey; else it authenticates in
\* no way.  authenticateViaPrivateKey and setAuthToken together are called at
\* most once per call.
C1_PriorityOfCredentials ==
  \A c \in Calls :
    kind[c] = "init" =>
      LET o == opts[c]
          nKey == Count(c, "authenticateViaPrivateKey")
          nRetr == Count(c, "tokenRetriever")
          nSet == Count(c, "setAuthToken")
      IN /\ nKey + nSet <= 1
         /\ HasPair(o) =>
              /\ nKey = 1 /\ nRetr = 0 /\ nSet = 0
              /\ log[Pos(c, "authenticateViaPrivateKey")].args[1] = o.email
              /\ log[Pos(c, "authenticateViaPrivateKey")].args[2] = o.privateKey
         /\ ~HasPair(o) /\ HasKeyJson(o) =>
              /\ nRetr = 0 /\ nSet = 0
              /\ \/ nKey = 1 /\ result[c] # Rejected(ParseErrorMessage)
                 \/ nKey = 0 /\ result[c] = Rejected(ParseErrorMessage)
         /\ ~HasPair(o) /\ ~HasKeyJson(o) /\ HasRetriever(o) => nRetr = 1 /\ nKey = 0
         /\ ~HasPair(o) /\ ~HasKeyJson(o) /\ ~HasRetriever(o) =>
              nKey = 0 /\ nRetr = 0 /\ nSet = 0

\* C1 witness: all three kinds of credentials were supplied, the pair was
\* used, and the call has resolved
C1_Witness ==
  \E c \in Calls :
    /\ kind[c] = "init" /\ pc[c] = "done" /\ result[c].st = "fulfilled"
    /\ HasPair(opts[c]) /\ HasKeyJson(opts[c]) /\ HasRetriever(opts[c])
    /\ Count(c, "authenticateViaPrivateKey") = 1

\* C2: in a run of initEarthEngine that takes an authentication path,
\* ee.initialize is called only once that authentication has reported
\* success: the call to the authentication entry point is earlier in the
\* record and its success callback has fired, or tokenRetriever has resolved
\* and setAuthToken was called earlier.  ee.initialize is never called while
\* the authentication is still pending, nor before it.
C2_InitializeAfterAuthentication ==
  \A c \in Calls :
    (kind[c] = "init" /\ Count(c, "initialize") > 0) =>
      LET o == opts[c]
      IN /\ (HasPair(o) \/ HasKeyJson(o)) =>
              /\ Pos(c, "authenticateViaPrivateKey") > 0
              /\ Pos(c, "authenticateViaPrivateKey") < Pos(c, "initialize")
              /\ reports[c]["auth"] = <<"ok">>
              /\ authP[c].st = "fulfilled"
         /\ (~HasPair(o) /\ ~HasKeyJson(o) /\ HasRetriever(o)) =>
              /\ tokP[c].st = "fulfilled"
              /\ Pos(c, "setAuthToken") > 0
              /\ Pos(c, "setAuthToken") < Pos(c, "initialize")

\* C2 witness: a call on the private-key path has called ee.initialize
C2_Witness ==
  \E c \in Calls :
    /\ kind[c] = "init" /\ HasKeyJson(opts[c]) /\ ~HasPair(opts[c])
    /\ Count(c, "initialize") = 1 /\ pc[c] = "awaitInit"

\* C3: when authenticateViaPrivateKey invokes its error callback with E,
\* initEarthEngine never calls ee.initialize in that run, and the promise it
\* returned is rejected with that same E once the call has ended.
C3_AuthenticationErrorForwarded ==
  \A c \in Calls : \A e \in CallbackErrors :
    (kind[c] = "init" /\ reports[c]["auth"] = <<e>>) =>
      /\ Count(c, "initialize") = 0
      /\ result[c].st # "fulfilled"
      /\ pc[c] = "done" => result[c] = Rejected(e)

\* C3 witness: the error callback fired with E2 and the call has ended
C3_Witness ==
  \E c \in Calls :
    kind[c] = "init" /\ reports[c]["auth"] = <<"E2">> /\ pc[c] = "done"

\* C4: when the authentication succeeded and ee.initialize invokes its error
\* callback with E, the promise of initEarthEngine is rejected with that same
\* E and is not resolved to ee.
C4_InitializationErrorForwarded ==
  \A c \in Calls : \A e \in CallbackErrors :
    (kind[c] = "init" /\ reports[c]["init"] = <<e>>) =>
      /\ result[c].st # "fulfilled"
      /\ pc[c] = "done" => result[c] = Rejected(e)

\* C4 witness: authentication reported success, ee.initialize reported E1, and
\* the call has ended
C4_Witness ==
  \E c \in Calls :
    /\ kind[c] = "init" /\ reports[c]["auth"] = <<"ok">>
    /\ reports[c]["init"] = <<"E1">> /\ pc[c] = "done"

\* A text that JSON.parse turns into an object
ParsesAsJsonObject(x) == ~JSONparse(x).throws /\ JSONparse(x).val.t = "object"
NoCredentials(o) == ~HasPair(o) /\ ~HasKeyJson(o) /\ ~HasRetriever(o)
TokenPath(o) == ~HasPair(o) /\ ~HasKeyJson(o) /\ HasRetriever(o)
\* The errors the library raised in call c: passed to an error callback of one
\* of the two steps, or thrown by one of its entry points
LibraryErrors(c) ==
  {e \in CallbackErrors : reports[c]["auth"] = <<e>> \/ reports[c]["init"] = <<e>>}
    \cup {e \in ThrownErrors :
            \E i \in 1 .. Len(log) : log[i].call = c /\ log[i].fn # "tokenRetriever"}

\* C5: when privateKeyJson is a string that does not parse as a JSON object
\* and the email / privateKey pair is not supplied, initEarthEngine calls
\* neither authenticateViaPrivateKey nor ee.initialize, and its promise is
\* rejected with the message 'Failed to parse service account JSON key'.
\* (A privateKeyJson that is the empty string counts as not supplied, as in
\* C1, and is left out here.)
C5_MalformedKeyRejected ==
  \A c \in Calls :
    (/\ kind[c] = "init" /\ ~HasPair(opts[c])
     /\ NonEmptyString(opts[c].privateKeyJson)
     /\ ~ParsesAsJsonObject(opts[c].privateKeyJson)) =>
      /\ Count(c, "authenticateViaPrivateKey") = 0
      /\ Count(c, "initialize") = 0
      /\ pc[c] = "done" => result[c] = Rejected(ParseErrorMessage)

\* C6, as claimed: every rejection of initEarthEngine is the malformed-
\* credential error with the fixed message or an error that the library
\* raised, forwarded unchanged.
C6_OnlyTwoKindsOfRejection ==
  \A c \in Calls :
    (kind[c] = "init" /\ result[c].st = "rejected") =>
      \/ result[c].v = ParseErrorMessage
      \/ result[c].v \in LibraryErrors(c)

\* C6, amended: every rejection of initEarthEngine is one of four kinds: the
\* malformed-credential error with the fixed message, for a privateKeyJson
\* string; the error 'Project must be a string, got <type>', for a truthy
\* project that is not a string; the error with which the caller's
\* tokenRetriever threw or rejected, unchanged; or an error the library
\* raised in this call, unchanged.
C6_FourKindsOfRejection ==
  \A c \in Calls :
    (kind[c] = "init" /\ result[c].st = "rejected") =>
      \/ /\ result[c].v = ParseErrorMessage
         /\ NonEmptyString(opts[c].privateKeyJson) /\ ~HasPair(opts[c])
      \/ /\ BadProject(opts[c])
         /\ result[c].v = ProjectErrorMessage(opts[c].project)
      \/ /\ result[c].v \in RetrieverErrors
         /\ Count(c, "tokenRetriever") = 1
         /\ tokP[c].st \in {"none", "rejected"}
         /\ tokP[c].st = "rejected" => tokP[c].v = result[c].v
      \/ result[c].v \in LibraryErrors(c)

\* C6 witness: tokenRetriever rejected and the call was rejected with its
\* error
C6_Witness ==
  \E c \in Calls :
    /\ kind[c] = "init" /\ tokP[c] = Rejected("R1") /\ result[c] = Rejected("R1")

\* C7: there is no retry.  A call of initEarthEngine or of initWithOAuth
\* invokes its authentication entry point at most once and ee.initialize at
\* most once, whether the step succeeds or fails.
C7_NoRetry ==
  \A c \in Calls :
    /\ Count(c, "authenticateViaPrivateKey") + Count(c, "authenticateViaOauth")
         + Count(c, "setAuthToken") <= 1
    /\ Count(c, "tokenRetriever") <= 1
    /\ Count(c, "initialize") <= 1

\* C7 witness: a call of initWithOAuth whose authentication failed has ended
\* with one call of authenticateViaOauth
C7_Witness ==
  \E c \in Calls :
    /\ kind[c] = "oauth" /\ pc[c] = "done" /\ result[c] = Rejected("E1")
    /\ reports[c]["auth"] = <<"E1">> /\ Count(c, "authenticateViaOauth") = 1

\* C8: initEarthEngine and initWithOAuth resolve to the ee object of the
\* library, and only when ee.initialize reported success and the
\* authentication step, when there is one, reported success before it.
C8_ResolvesToEEAfterSuccess ==
  \A c \in Calls :
    result[c].st = "fulfilled" =>
      /\ result[c].v = TheEE
      /\ reports[c]["init"] = <<"ok">>
      /\ (kind[c] = "oauth" \/ HasPair(opts[c]) \/ HasKeyJson(opts[c])) =>
           reports[c]["auth"] = <<"ok">>
      /\ (kind[c] = "init" /\ TokenPath(opts[c])) =>
           tokP[c].st = "fulfilled" /\ Count(c, "setAuthToken") = 1

\* C8 witness: a call of initWithOAuth has resolved
C8_Witness ==
  \E c \in Calls :
    kind[c] = "oauth" /\ pc[c] = "done" /\ result[c] = Fulfilled(TheEE)

\* C9, as claimed: called with no credentials, initEarthEngine calls neither
\* authenticateViaPrivateKey nor setAuthToken, and it calls ee.initialize.
C9_NoCredentialsStillInitializes ==
  \A c \in Calls :
    (kind[c] = "init" /\ NoCredentials(opts[c])) =>
      /\ Count(c, "authenticateViaPrivateKey") = 0
      /\ Count(c, "setAuthToken") = 0
      /\ Count(c, "initialize") = 1

\* C9, amended: called with no credentials, initEarthEngine calls neither
\* authenticateViaPrivateKey nor setAuthToken nor tokenRetriever, and it calls
\* ee.initialize once, except when project is a truthy value that is not a
\* string: then it does not call ee.initialize and is rejected with 'Project
\* must be a string, got <type>'.
C9_NoCredentialsInitializesUnlessBadProject ==
  \A c \in Calls :
    (kind[c] = "init" /\ NoCredentials(opts[c])) =>
      /\ Count(c, "authenticateViaPrivateKey") = 0
      /\ Count(c, "setAuthToken") = 0
      /\ Count(c, "tokenRetriever") = 0
      /\ ~BadProject(opts[c]) => Count(c, "initialize") = 1
      /\ BadProject(opts[c]) =>
           /\ Count(c, "initialize") = 0
           /\ pc[c] = "done" => result[c] = Rejected(ProjectErrorMessage(opts[c].project))

\* C9 witness: a call without credentials and without project has called
\* ee.initialize and resolved
C9_Witness ==
  \E c \in Calls :
    /\ kind[c] = "init" /\ NoCredentials(opts[c]) /\ opts[c].project = Undef
    /\ Count(c, "initialize") = 1 /\ result[c].st = "fulfilled"

\* C10: on the tokenRetriever path initEarthEngine calls tokenRetriever, and
\* only when its promise has resolved with a token T does it call
\* ee.data.setAuthToken('', 'Bearer', T, 3600, [], undefined, false), before
\* ee.initialize; it never calls authenticateViaPrivateKey.
C10_TokenPath ==
  \A c \in Calls :
    (kind[c] = "init" /\ TokenPath(opts[c])) =>
      /\ Pos(c, "tokenRetriever") = 1
      /\ Count(c, "authenticateViaPrivateKey") = 0
      /\ Count(c, "setAuthToken") > 0 =>
           /\ tokP[c].st = "fulfilled"
           /\ Pos(c, "tokenRetriever") < Pos(c, "setAuthToken")
           /\ log[Pos(c, "setAuthToken")].args =
                <<[t |-> "string", v |-> <<>>], [t |-> "string", v |-> <<"Bearer">>],
                  [t |-> "string", v |-> <<tokP[c].v>>], [t |-> "number", v |-> <<"3600">>],
                  [t |-> "array", v |-> <<>>], [t |-> "undefined", v |-> <<>>],
                  [t |-> "boolean", v |-> <<"false">>]>>
      /\ Count(c, "initialize") > 0 =>
           /\ Pos(c, "setAuthToken") > 0
           /\ Pos(c, "setAuthToken") < Pos(c, "initialize")

\* C10 witness: the token T2 was set and ee.initialize called after it
C10_Witness ==
  \E c \in Calls :
    /\ kind[c] = "init" /\ TokenPath(opts[c]) /\ tokP[c] = Fulfilled("T2")
    /\ Count(c, "setAuthToken") = 1 /\ Count(c, "initialize") = 1

\* n white-space chunks
RECURSIVE Spaces(_)
Spaces(n) == IF n = 0 THEN <<>> ELSE <<" ">> \o Spaces(n - 1)
\* t is s without the white space at its two ends
IsTrimOf(t, s) ==
  /\ t = <<>> \/ (t[1] # " " /\ t[Len(t)] # " ")
  /\ \E i \in 0 .. Len(s), j \in 0 .. Len(s) : s = Spaces(i) \o t \o Spaces(j)
\* The arguments of the one call of authenticateViaPrivateKey that call c made
KeyArgs(c) == log[Pos(c, "authenticateViaPrivateKey")].args

\* C11: on the email / privateKey path the credentials record passed to
\* authenticateViaPrivateKey is client_email: email, private_key: privateKey,
\* and project_id: the project without the white space at its ends when
\* project is a non-empty string; it has no project_id field otherwise.
C11_PairCredentialsRecord ==
  \A c \in Calls :
    (kind[c] = "init" /\ HasPair(opts[c])) =>
      /\ Count(c, "authenticateViaPrivateKey") = 1
      /\ Len(KeyArgs(c)) = 3
      /\ KeyArgs(c)[1] = opts[c].email
      /\ KeyArgs(c)[2] = opts[c].privateKey
      /\ NonEmptyString(opts[c].project) =>
           /\ KeyArgs(c)[3].t = "string"
           /\ IsTrimOf(KeyArgs(c)[3].v, opts[c].project.v)
      /\ ~NonEmptyString(opts[c].project) => KeyArgs(c)[3] = Absent

\* C11 witness: the pair was given with a project that starts with white
\* space, and the credentials were passed with project_id "p"
C11_Witness ==
  \E c \in Calls :
    /\ kind[c] = "init" /\ HasPair(opts[c]) /\ opts[c].project = Str(<<" ", "p">>)
    /\ Count(c, "authenticateViaPrivateKey") = 1
    /\ KeyArgs(c)[3] = Str(<<"p">>)

\* C12: when privateKeyJson is the JSON text of a service-account key, the
\* credentials passed to authenticateViaPrivateKey have the client_email of
\* the text as client_email and the private_key of the text as private_key.
C12_JsonTextCredentials ==
  \A c \in Calls :
    (/\ kind[c] = "init" /\ ~HasPair(opts[c])
     /\ NonEmptyString(opts[c].privateKeyJson)
     /\ ParsesAsJsonObject(opts[c].privateKeyJson)) =>
      LET key == JSONparse(opts[c].privateKeyJson).val
      IN /\ Count(c, "authenticateViaPrivateKey") = 1
         /\ KeyArgs(c)[1] = GetProp(key, "client_email")
         /\ KeyArgs(c)[2] = GetProp(key, "private_key")
         /\ opts[c].privateKeyJson.v \in {JsonKeyText, JsonKeyTextWithProject} =>
              /\ KeyArgs(c)[1] = [t |-> "string", v |-> <<"json@x">>]
              /\ KeyArgs(c)[2] = [t |-> "string", v |-> <<"JSONKEY">>]

\* C12 witness: the key text with a project_id was passed and the call has
\* authenticated with the e-mail of the text
C12_Witness ==
  \E c \in Calls :
    /\ kind[c] = "init" /\ opts[c].privateKeyJson = Str(JsonKeyTextWithProject)
    /\ Count(c, "authenticateViaPrivateKey") = 1
    /\ KeyArgs(c)[1] = Str(<<"json@x">>)
    /\ reports[c]["auth"] = <<"ok">>

\* C13: when privateKeyJson is the parsed content of a key file, an object
\* with the fields client_email and private_key, the record passed to
\* authenticateViaPrivateKey carries the client_email and the private_key of
\* that object.
C13_KeyFileObjectCredentials ==
  \A c \in Calls :
    (/\ kind[c] = "init" /\ ~HasPair(opts[c])
     /\ opts[c].privateKeyJson.t = "object"
     /\ GetProp(opts[c].privateKeyJson, "client_email") # Undef
     /\ GetProp(opts[c].privateKeyJson, "private_key") # Undef) =>
      /\ Count(c, "authenticateViaPrivateKey") = 1
      /\ KeyArgs(c)[1] = GetProp(opts[c].privateKeyJson, "client_email")
      /\ KeyArgs(c)[2] = GetProp(opts[c].privateKeyJson, "private_key")

\* C14: initWithOAuth calls authenticateViaOauth with the clientId given, with
\* the scopes of the caller when scopes is supplied and with the one scope
\* 'https://www.googleapis.com/auth/earthengine' otherwise, and with null as
\* its fifth argument.
C14_OAuthArguments ==
  \A c \in Calls :
    kind[c] = "oauth" =>
      /\ Count(c, "authenticateViaOauth") = 1
      /\ log[Pos(c, "authenticateViaOauth")].args =
           <<opts[c].clientId,
             IF opts[c].scopes.t = "undefined"
             THEN [t |-> "array", v |-> <<"https://www.googleapis.com/auth/earthengine">>]
             ELSE opts[c].scopes,
             [t |-> "null", v |-> <<>>]>>

\* C14 witness: initWithOAuth was called with a scope list of its own and has
\* called authenticateViaOauth
C14_Witness ==
  \E c \in Calls :
    /\ kind[c] = "oauth" /\ opts[c].scopes.t = "array" /\ opts[c].scopes.v # <<>>
    /\ Count(c, "authenticateViaOauth") = 1

\* C15: isInitialized never throws: it returns true exactly when
\* ee.data.getApiBaseUrl is a function that returns a value other than null,
\* and returns false when getApiBaseUrl returns null or throws.
C15_IsInitializedNeverThrows ==
  hfn = "isInitialized" =>
    LET api == hargs[1]
    IN /\ hret.t = "boolean"
       /\ hret.v = <<"true">> <=> (api.isFunction /\ ~api.throws /\ api.ret.t # "null")
       /\ (api.isFunction /\ (api.throws \/ api.ret.t = "null")) => hret.v = <<"false">>

\* C15 witness: getApiBaseUrl was called and threw, and isInitialized
\* returned false
C15_Witness ==
  /\ hfn = "isInitialized"
  /\ hargs[1].isFunction /\ hargs[1].throws
  /\ Len(hcalls) = 1 /\ hcalls[1].ret.t = "thrown"
  /\ hret = [t |-> "boolean", v |-> <<"false">>]

\* C16: each export helper forwards every option field the caller supplied
\* (scale, crs, maxPixels, region, folder, fileNamePrefix, formatOptions,
\* selectors) to the library's export call with its value unchanged, whatever
\* the value, and returns the library's task object unchanged.
C16_ExportOptionsForwarded ==
  hfn \in {"exportImageToDrive", "exportImageToCloudStorage", "exportTableToDrive",
           "exportTableToCloudStorage", "exportImageToAsset"} =>
    /\ Len(hcalls) = 1
    /\ \A f \in {"scale", "crs", "maxPixels", "region", "folder", "fileNamePrefix",
                 "formatOptions", "selectors"} :
         hopts[f].t # "undefined" => hcalls[1].opts[f] = hopts[f]
    /\ hret = hcalls[1].ret

\* C17: centroid, bounds, area, union, intersection and difference pass
\* maxError to the library method exactly when maxError is not undefined (0
\* and null are passed), call the method without it otherwise, and return the
\* library's result unchanged.
C17_MaxErrorForwarded ==
  hfn \in {"centroid", "bounds", "area", "union", "intersection", "difference"} =>
    LET maxError == hargs[Len(hargs)]
        before == IF hfn \in {"union", "intersection", "difference"}
                  THEN <<hargs[2]>> ELSE <<>>
    IN /\ Len(hcalls) = 1
       /\ hcalls[1].fn = hfn
       /\ hcalls[1].recv = hargs[1]
       /\ hcalls[1].args = IF maxError.t = "undefined" THEN before
                           ELSE Append(before, maxError)
       /\ hret = hcalls[1].ret

\* C17 witness: union was called with maxError = 0 and passed it on
C17_Witness ==
  /\ hfn = "union"
  /\ hargs[3] = [t |-> "number", v |-> <<"0">>]
  /\ Len(hcalls) = 1 /\ hcalls[1].args = <<hargs[2], hargs[3]>>

\* C18: createFeature calls ee.Feature(geometry, properties) when a
\* properties record is supplied and ee.Feature(geometry), with one argument,
\* when properties is omitted; it returns the library's result unchanged.
C18_CreateFeatureArguments ==
  hfn = "createFeature" =>
    /\ Len(hcalls) = 1
    /\ hcalls[1].fn = "Feature"
    /\ hargs[2].t = "object" => hcalls[1].args = <<hargs[1], hargs[2]>>
    /\ hargs[2].t = "undefined" => hcalls[1].args = <<hargs[1]>>
    /\ hret = hcalls[1].ret

\* C18 witness: createFeature was called with an empty properties record and
\* gave ee.Feature two arguments
C18_Witness ==
  /\ hfn = "createFeature"
  /\ hargs[2] = [t |-> "object", v |-> <<>>]
  /\ Len(hcalls) = 1 /\ Len(hcalls[1].args) = 2

\* C19: compositeCollection calls collection.reduce(reducer), and not median,
\* when a reducer is supplied, and collection.median(), and not reduce, when
\* none is; exactly one of the two is called.
C19_ReduceOrMedian ==
  hfn = "compositeCollection" =>
    LET reduces == {i \in 1..Len(hcalls) : hcalls[i].fn = "reduce"}
        medians == {i \in 1..Len(hcalls) : hcalls[i].fn = "median"}
    IN /\ Cardinality(reduces) + Cardinality(medians) = 1
       /\ \A i \in 1..Len(hcalls) : hcalls[i].recv = hargs[1]
       /\ hargs[2].t # "undefined" =>
            /\ medians = {}
            /\ \A i \in reduces : hcalls[i].args = <<hargs[2]>>
       /\ hargs[2].t = "undefined" =>
            /\ reduces = {}
            /\ \A i \in medians : hcalls[i].args = <<>>

\* C19 witness: compositeCollection was called with a reducer and called
\* reduce
C19_Witness ==
  /\ hfn = "compositeCollection"
  /\ hargs[2].t = "handle"
  /\ Len(hcalls) = 1 /\ hcalls[1].fn = "reduce"

\* C20: loadImageCollection calls ee.ImageCollection(collectionId), then
\* filterBounds(geometry) on its result, then filterDate(timeRange.start,
\* timeRange.end) on the result of filterBounds, in this order, and returns
\* the result of filterDate.
C20_LoadChainOrder ==
  hfn = "loadImageCollection" =>
    /\ Len(hcalls) = 3
    /\ hcalls[1].fn = "ImageCollection" /\ hcalls[1].args = <<hargs[1]>>
    /\ hcalls[2].fn = "filterBounds" /\ hcalls[2].recv = hcalls[1].ret
    /\ hcalls[2].args = <<hargs[2]>>
    /\ hcalls[3].fn = "filterDate" /\ hcalls[3].recv = hcalls[2].ret
    /\ hcalls[3].args = <<[t |-> "string", v |-> <<"2020-01-01">>],
                          [t |-> "string", v |-> <<"2020-12-31">>]>>
    /\ hret = hcalls[3].ret

\* C20 witness: loadImageCollection ran its chain, the library returning a
\* different object from filterDate than from filterBounds
C20_Witness ==
  /\ hfn = "loadImageCollection"
  /\ Len(hcalls) = 3
  /\ hcalls[3].ret # hcalls[2].ret
  /\ hret = hcalls[3].ret

\* C21: featureCollectionFromGeometries calls ee.Feature once per input
\* geometry, with that geometry alone, and then calls ee.FeatureCollection
\* once with the list of the features ee.Feature returned, as many as the
\* geometries and in their order.
C21_OneFeaturePerGeometry ==
  hfn = "featureCollectionFromGeometries" =>
    LET geometries == hargs[1].v
        n == Len(geometries)
    IN /\ Len(hcalls) = n + 1
       /\ \A i \in 1..n :
            hcalls[i].fn = "Feature" /\ hcalls[i].args = <<geometries[i]>>
       /\ hcalls[n + 1].fn = "FeatureCollection"
       /\ Len(hcalls[n + 1].args) = 1
       /\ Len(hcalls[n + 1].args[1].v) = n
       /\ \A i \in 1..n : hcalls[n + 1].args[1].v[i] = hcalls[i].ret
       /\ hret = hcalls[n + 1].ret

\* C21 witness: two different geometries were given, ee.Feature returned two
\* different features, and ee.FeatureCollection was called with both
C21_Witness ==
  /\ hfn = "featureCollectionFromGeometries"
  /\ Len(hargs[1].v) = 2 /\ hargs[1].v[1] # hargs[1].v[2]
  /\ Len(hcalls) = 3 /\ hcalls[1].ret # hcalls[2].ret
  /\ hcalls[3].fn = "FeatureCollection"

\* C22: startTasks calls start() on the tasks in array order, once per
\* element, the next one only after the one before returned; when a start()
\* throws, the tasks after it are not started, and nothing is called on the
\* tasks started before it.
C22_StartInSequence ==
  hfn = "startTasks" =>
    LET tasks == hargs[1].v
        outcomes == hargs[2].v
        throwing == {i \in 1..Len(tasks) : outcomes[i] = "throws"}
        last == IF throwing = {} THEN Len(tasks)
                ELSE CHOOSE i \in throwing : \A j \in throwing : i <= j
    IN /\ Len(hcalls) = last
       /\ \A i \in 1..last :
            /\ hcalls[i].fn = "start" /\ hcalls[i].recv = tasks[i] /\ hcalls[i].args = <<>>
            /\ i < last => hcalls[i].ret.t # "thrown"
       /\ throwing # {} => hret.t = "thrown"
       /\ throwing = {} => hret.t = "undefined"

\* C22 witness: of two tasks the first one's start() threw, and the second
\* was never started
C22_Witness ==
  /\ hfn = "startTasks"
  /\ Len(hargs[1].v) = 2 /\ hargs[2].v[1] = "throws"
  /\ Len(hcalls) = 1 /\ hcalls[1].recv = hargs[1].v[1]

\* C23: on the privateKeyJson path, with the JSON text of a key, the
\* project_id passed to authenticateViaPrivateKey is the project without the
\* white space at its ends when project is a non-empty string (whatever the
\* project_id of the text), else the project_id of the text when it has one,
\* else the record has no project_id.
C23_JsonProjectId ==
  \A c \in Calls :
    (/\ kind[c] = "init" /\ ~HasPair(opts[c])
     /\ NonEmptyString(opts[c].privateKeyJson)
     /\ ParsesAsJsonObject(opts[c].privateKeyJson)) =>
      LET own == GetProp(JSONparse(opts[c].privateKeyJson).val, "project_id")
      IN /\ Count(c, "authenticateViaPrivateKey") = 1
         /\ NonEmptyString(opts[c].project) =>
              /\ KeyArgs(c)[3].t = "string"
              /\ IsTrimOf(KeyArgs(c)[3].v, opts[c].project.v)
         /\ (~NonEmptyString(opts[c].project) /\ own.t # "undefined") =>
              KeyArgs(c)[3] = own
         /\ (~NonEmptyString(opts[c].project) /\ own.t = "undefined") =>
              KeyArgs(c)[3] = Absent
         /\ (opts[c].privateKeyJson.v = JsonKeyTextWithProject
             /\ ~NonEmptyString(opts[c].project)) =>
              KeyArgs(c)[3] = [t |-> "string", v |-> <<"keyproj">>]

\* C23 witness: a key text with a project_id of its own was given together
\* with a project, and the project was passed
C23_Witness ==
  \E c \in Calls :
    /\ kind[c] = "init" /\ ~HasPair(opts[c])
    /\ opts[c].privateKeyJson = Str(JsonKeyTextWithProject)
    /\ opts[c].project = Str(<<"p", " ">>)
    /\ Count(c, "authenticateViaPrivateKey") = 1
    /\ KeyArgs(c)[3] = Str(<<"p">>)

\* C24: in initWithOAuth, ee.initialize is called only after the success
\* callback of authenticateViaOauth has fired; when authenticateViaOauth
\* invokes its error callback with E, ee.initialize is never called and the
\* promise of initWithOAuth is rejected with E.
C24_OAuthInitializeAfterSignIn ==
  \A c \in Calls :
    kind[c] = "oauth" =>
      /\ Count(c, "initialize") > 0 =>
           /\ Pos(c, "authenticateViaOauth") > 0
           /\ Pos(c, "authenticateViaOauth") < Pos(c, "initialize")
           /\ reports[c]["auth"] = <<"ok">>
      /\ \A e \in CallbackErrors :
           reports[c]["auth"] = <<e>> =>
             /\ Count(c, "initialize") = 0
             /\ result[c].st # "fulfilled"
             /\ pc[c] = "done" => result[c] = [st |-> "rejected", v |-> e]

\* C24 witness: the error callback of authenticateViaOauth fired with E1 and
\* initWithOAuth has ended
C24_Witness ==
  \E c \in Calls :
    /\ kind[c] = "oauth" /\ reports[c]["auth"] = <<"E1">> /\ pc[c] = "done"
    /\ Count(c, "authenticateViaOauth") = 1

\* The entries of the log that are calls of an authentication entry point
IsAuthentication(i) ==
  log[i].fn \in {"authenticateViaPrivateKey", "authenticateViaOauth", "setAuthToken"}
\* The call whose credentials the library holds when log entry i is made: the
\* one that authenticated last before it (0: none)
CredentialsOwnerAt(i) ==
  LET before == {j \in 1 .. i - 1 : IsAuthentication(j)}
  IN IF before = {} THEN 0
     ELSE log[CHOOSE j \in before : \A k \in before : k <= j].call

\* C25: overlapping calls of initEarthEngine are not serialized, and each
\* runs on its own: whatever the other calls have done, and whoever
\* authenticated last, a call that has called ee.initialize has called its
\* own authentication entry point before, once, and seen it succeed.
C25_OwnOrderUnderOverlap ==
  \A c \in Calls :
    (kind[c] = "init" /\ Count(c, "initialize") > 0) =>
      /\ Count(c, "authenticateViaPrivateKey") = 1
      /\ Count(c, "initialize") = 1
      /\ Pos(c, "authenticateViaPrivateKey") < Pos(c, "initialize")
      /\ reports[c]["auth"] = <<"ok">>

\* C25 witness: the interleaving auth(A), auth(B), initialize(A),
\* initialize(B) with different credentials: A's ee.initialize runs while the
\* library holds the credentials of B
C25_Witness ==
  \E a \in Calls, b \in Calls :
    /\ a # b
    /\ Len(log) = 4
    /\ log[1].call = a /\ log[1].fn = "authenticateViaPrivateKey"
    /\ log[2].call = b /\ log[2].fn = "authenticateViaPrivateKey"
    /\ log[3].call = a /\ log[3].fn = "initialize"
    /\ log[4].call = b /\ log[4].fn = "initialize"
    /\ log[1].args # log[2].args
    /\ CredentialsOwnerAt(3) = b

\* The promise call c returned has settled
HasSettled(c) == result[c].st \in {"fulfilled", "rejected"}
\* Step s of call c was started and the library has not reported back
Outstanding(c, s) == held[c][s] /\ reports[c][s] = <<>>
\* Call c is running and waits for nothing outside the package
AllReported(c) ==
  /\ pc[c] \in {"awaitAuth", "awaitToken", "awaitInit"}
  /\ \A s \in Steps : ~Outstanding(c, s)
  /\ tokP[c].st # "pending"

\* C26: initEarthEngine settles if and only if every step it started has
\* reported back.  While the authentication step has not reported, the promise
\* is pending and ee.initialize has not been called; while ee.initialize has
\* not reported, the promise is pending (no timeout, no cancellation); and a
\* call that waits for nothing outside the package goes on, to its end or to
\* its next step.
C26_SettlesIffReported ==
  /\ [](\A c \in Calls :
          kind[c] = "init" =>
            /\ Outstanding(c, "auth") => (~HasSettled(c) /\ Count(c, "initialize") = 0)
            /\ Outstanding(c, "init") => ~HasSettled(c)
            /\ HasSettled(c) => \A s \in Steps : ~Outstanding(c, s))
  /\ \A c \in Calls :
       (kind[c] = "init" /\ AllReported(c)) ~> (pc[c] = "done" \/ ~AllReported(c))

\* C26 witness: ee.initialize was called, has not reported, and the promise
\* of the call is pending
C26_Witness ==
  \E c \in Calls :
    /\ kind[c] = "init" /\ pc[c] = "awaitInit"
    /\ Outstanding(c, "init") /\ ~HasSettled(c)
    /\ reports[c]["auth"] = <<"ok">>

\* What a step's promise is after the library reported r first
OutcomeOf(r) ==
  IF r = "ok" THEN [st |-> "fulfilled", v |-> ""] ELSE [st |-> "rejected", v |-> r]

\* C27: the outcome of each step is fixed by the first callback the library
\* fires, however many follow: the step's promise is what the first
\* invocation made it; each entry point is called at most once per run; and
\* the promise of initEarthEngine is settled by the first reports alone.
C27_FirstCallbackCounts ==
  \A c \in Calls :
    kind[c] = "init" =>
      /\ (held[c]["auth"] /\ reports[c]["auth"] # <<>>) =>
           authP[c] = OutcomeOf(reports[c]["auth"][1])
      /\ (held[c]["init"] /\ reports[c]["init"] # <<>>) =>
           initP[c] = OutcomeOf(reports[c]["init"][1])
      /\ Count(c, "authenticateViaPrivateKey") <= 1
      /\ Count(c, "initialize") <= 1
      /\ (Count(c, "initialize") = 1 /\ held[c]["auth"]) => reports[c]["auth"][1] = "ok"
      /\ (pc[c] = "done" /\ held[c]["auth"]) =>
           IF reports[c]["auth"][1] # "ok"
           THEN result[c] = OutcomeOf(reports[c]["auth"][1])
           ELSE held[c]["init"] =>
                  IF reports[c]["init"][1] # "ok"
                  THEN result[c] = OutcomeOf(reports[c]["init"][1])
                  ELSE result[c].st = "fulfilled"

\* C27 witness: the success callback of the authentication fired and then its
\* error callback, ee.initialize was called once, and the call resolved
C27_Witness ==
  \E c \in Calls :
    /\ kind[c] = "init" /\ pc[c] = "done"
    /\ reports[c]["auth"] = <<"ok", "E1">>
    /\ Count(c, "initialize") = 1
    /\ result[c].st = "fulfilled"

\* C28, as claimed: when project is a truthy value that is not a string,
\* initEarthEngine does not call ee.initialize and is rejected with 'Project
\* must be a string, got <type>'; and when it is, the authentication step of
\* its credentials has been performed.
C28_BadProjectRejectedWithMessage ==
  \A c \in Calls :
    (kind[c] = "init" /\ BadProject(opts[c])) =>
      /\ Count(c, "initialize") = 0
      /\ pc[c] = "done" => result[c] = Rejected(ProjectErrorMessage(opts[c].project))
      /\ (pc[c] = "done" /\ (HasPair(opts[c]) \/ HasKeyJson(opts[c]))) =>
           Count(c, "authenticateViaPrivateKey") = 1

\* C28, amended: when project is a truthy value that is not a string,
\* initEarthEngine never calls ee.initialize and never resolves.  The type is
\* checked in the initialization step only: the call is rejected with
\* 'Project must be a string, got <type>' once the authentication step of its
\* credentials has succeeded (at once when there are no credentials), so that
\* authentication has been performed before the rejection; when the
\* authentication step reports an error E instead, the call is rejected with
\* E.
C28_BadProjectRejectedAfterAuthentication ==
  \A c \in Calls :
    (kind[c] = "init" /\ BadProject(opts[c])) =>
      LET message == [st |-> "rejected", v |-> ProjectErrorMessage(opts[c].project)]
      IN /\ Count(c, "initialize") = 0
         /\ result[c].st # "fulfilled"
         /\ (pc[c] = "done" /\ (NoCredentials(opts[c]) \/ reports[c]["auth"] = <<"ok">>)) =>
              result[c] = message
         /\ result[c] = message =>
              /\ (HasPair(opts[c]) \/ HasKeyJson(opts[c])) =>
                   /\ Count(c, "authenticateViaPrivateKey") = 1
                   /\ reports[c]["auth"] = <<"ok">>
              /\ TokenPath(opts[c]) =>
                   /\ Count(c, "setAuthToken") = 1
                   /\ tokP[c].st = "fulfilled"
         /\ \A e \in CallbackErrors :
              (reports[c]["auth"] = <<e>> /\ pc[c] = "done") =>
                result[c] = [st |-> "rejected", v |-> e]

\* C28 witness: a call with the pair and project 5 has authenticated and was
\* then rejected because of the project
C28_Witness ==
  \E c \in Calls :
    /\ kind[c] = "init" /\ HasPair(opts[c]) /\ opts[c].project = Num("5")
    /\ Count(c, "authenticateViaPrivateKey") = 1 /\ reports[c]["auth"] = <<"ok">>
    /\ pc[c] = "done"
    /\ result[c] = Rejected("Project must be a string, got number")

\* What call c called, in order: the entry points and their arguments
OwnCalls(c) ==
  LET own == SelectSeq(log, LAMBDA e : e.call = c)
  IN [i \in 1 .. Len(own) |-> <<own[i].fn, own[i].args>>]
\* The entry point a call of kind k authenticates with
AuthenticationOf(k) ==
  IF k = "oauth" THEN "authenticateViaOauth" ELSE "authenticateViaPrivateKey"

\* C29: the package keeps no initialization state of its own.  Every call
\* performs its authentication step and, once that succeeded, ee.initialize,
\* whatever earlier calls did (succeeded, failed, still pending) and whether
\* resetClient was called; and two calls of a sequence with the same options
\* that got the same reports from the library have done the same: the same
\* calls with the same arguments, the same promise.
C29_NoStateOfItsOwn ==
  /\ \A c \in Calls :
       kind[c] # "none" =>
         /\ Count(c, AuthenticationOf(kind[c])) = 1
         /\ (reports[c]["auth"] = <<"ok">> /\ pc[c] \in {"awaitInit", "done"}) =>
              Count(c, "initialize") = 1
         /\ (pc[c] = "done" /\ reports[c]["init"] = <<"ok">>) => result[c].st = "fulfilled"
  /\ \A c \in Calls, d \in Calls :
       (/\ kind[c] # "none" /\ kind[c] = kind[d] /\ opts[c] = opts[d]
        /\ reports[c] = reports[d] /\ pc[c] = pc[d]) =>
         /\ OwnCalls(c) = OwnCalls(d)
         /\ result[c] = result[d]

\* C29 witness: the first call resolved, resetClient was not called, and a
\* second call of initEarthEngine made after it, with the same options, has
\* authenticated and initialized again
C29_Witness ==
  \E c \in Calls, d \in Calls :
    /\ c < d /\ kind[c] = "init" /\ kind[d] = "init" /\ opts[c] = opts[d]
    /\ result[c].st = "fulfilled" /\ result[d].st = "fulfilled"
    /\ Count(0, "reset") = 0
    /\ Pos(c, "initialize") < Pos(d, "authenticateViaPrivateKey")
    /\ Pos(d, "authenticateViaPrivateKey") < Pos(d, "initialize")

\* C30: for every project, initWithOAuth passes to ee.initialize the project
\* argument that initEarthEngine passes for it: the project without the
\* white space at its ends for a string that is not blank, null for an
\* absent, empty or blank project; and a project that is not a string is
\* treated as initEarthEngine treats it (no call of ee.initialize for a truthy
\* one).
C30_SameProjectArgument ==
  \A c \in Calls :
    (kind[c] = "oauth" /\ Count(c, "initialize") = 1) =>
      LET project == opts[c].project
          sent == log[Pos(c, "initialize")].args[4]
          same == InitArgs([NoOptions EXCEPT !.project = project])
      IN /\ ~same.reject
         /\ sent = same.args[4]
         /\ (project.t = "string" /\ \E i \in 1 .. Len(project.v) : project.v[i] # " ") =>
              (sent.t = "string" /\ IsTrimOf(sent.v, project.v))
         /\ (project.t = "undefined"
             \/ (project.t = "string" /\ \A i \in 1 .. Len(project.v) : project.v[i] = " ")) =>
              sent = [t |-> "null", v |-> <<>>]

====
